---- MODULE Spec2Model ----
(***************************************************************************)
(* Model of the left-to-right block processor `Blocks` (src/src/lib.rs).   *)
(*                                                                         *)
(* The state is one `Blocks` value (inner, lhs, rhs) together with the     *)
(* caller's view of it: the log of calls made so far, the value returned   *)
(* by the last call, and the vector returned by `consume`.                 *)
(*                                                                         *)
(* `usize` is modelled with a reduced width (UsizeBits); the call budgets  *)
(* are kept far below 2^UsizeBits so that, as on a real machine, a wrapped *)
(* counter can never come back to a position inside `inner`.               *)
(***************************************************************************)
EXTENDS Integers, Sequences, FiniteSets

\* ------------------------------------------------------------------ bounds
\* width of usize in the model (64 on the usual targets)
UsizeBits == 4
\* largest token index a caller passes in the free specification
MaxIdx == 3
\* number of add_left/add_right calls in the free specification
MaxOps == 5
\* number of add_left/add_right calls in the stream specification
MaxStream == 6

UsizeMod == 2 ^ UsizeBits
Idx == 0 .. MaxIdx

VARIABLES
    inner,            \* Blocks.inner : Vec<Block<Unbalanced>>
    lhs,              \* Blocks.lhs   : usize
    rhs,              \* Blocks.rhs   : usize
    overflow_checks,  \* build profile: TRUE = arithmetic overflow panics
    status,           \* "live" until consume(self) takes the value
    ret,              \* what the last call returned
    out,              \* the Vec<Block<Balanced>> returned by consume
    hist              \* the calls made so far, in order, with their results

vars == <<inner, lhs, rhs, overflow_checks, status, ret, out, hist>>

\* ------------------------------------------------------------- data model
\* Unbalanced = Option<NonZeroUsize>: None is <<>>, Some(n) is <<n>>
None == <<>>
Some(n) == <<n>>

\* NonZeroUsize::new(idx)
unchecked_new(idx) == Some(idx)
NonZeroUsize_new(idx) == IF idx = 0 THEN None ELSE Some(idx)

\* Block::open(idx)
open(idx) == [opening |-> idx, closing |-> None]

\* Vec::push
push_front(v, b) == <<b>> \o v
push(v, b) == Append(v, b)

\* Blocks::new()
new == [inner |-> <<>>, lhs |-> 0, rhs |-> 0]

\* usize arithmetic of a build without overflow checks
wrapping_add(x, y) == (x + y) % UsizeMod
wrapping_sub(x, y) == (x - y) % UsizeMod

\* the position add_right hands to get_mut: lhs after `self.lhs -= 1`
no_decrement(l) == l
saturating_dec(l) == IF l = 0 THEN 0 ELSE l - 1
target(l) == wrapping_sub(l, 1)

\* Vec::get_mut(i) is Some (i is a 0-based position)
get_mut_some(v, i) == i < Len(v)

\* Blocks::is_valid
is_valid_le(v, r) == r <= Len(v)
is_valid_of(v, r) == Len(v) = r
is_valid == is_valid_of(inner, rhs)

\* core::mem::transmute of Vec<Block<Unbalanced>> to Vec<Block<Balanced>>:
\* Option<NonZeroUsize> and usize share their layout, None being 0
transmute(v) ==
    [i \in 1 .. Len(v) |->
        [opening |-> v[i].opening,
         closing |-> IF v[i].closing = None THEN 0 ELSE v[i].closing[1]]]

Call(op, idx, res) == [op |-> op, idx |-> idx, res |-> res]

\* ------------------------------------------------------------------- Init
Init ==
    /\ inner = new.inner
    /\ lhs = new.lhs
    /\ rhs = new.rhs
    /\ overflow_checks \in BOOLEAN
    /\ status = "live"
    /\ ret = "none"
    /\ out = <<>>
    /\ hist = <<>>

\* ---------------------------------------------------------------- actions
\* Blocks::add_left(&mut self, idx)
add_left(idx) ==
    /\ status = "live"
    /\ IF overflow_checks /\ lhs + 1 >= UsizeMod
       THEN \* `self.lhs += 1` panics after the push
            /\ inner' = push(inner, open(idx))
            /\ ret' = "panic"
            /\ hist' = Append(hist, Call("L", idx, "panic"))
            /\ UNCHANGED <<lhs, rhs, overflow_checks, status, out>>
       ELSE /\ inner' = push(inner, open(idx))
            /\ lhs' = wrapping_add(lhs, 1)
            /\ ret' = "Ok"
            /\ hist' = Append(hist, Call("L", idx, "Ok"))
            /\ UNCHANGED <<rhs, overflow_checks, status, out>>

\* Blocks::add_right(&mut self, idx)
add_right(idx) ==
    /\ status = "live"
    /\ IF overflow_checks /\ lhs = 0
       THEN \* `self.lhs -= 1` panics: attempt to subtract with overflow
            /\ ret' = "panic"
            /\ hist' = Append(hist, Call("R", idx, "panic"))
            /\ UNCHANGED <<inner, lhs, rhs, overflow_checks, status, out>>
       ELSE LET l == target(lhs)
                closing == NonZeroUsize_new(idx)
                ok == get_mut_some(inner, l) /\ closing # None
                res == IF ok THEN "Ok" ELSE "ExtraRight"
            IN  /\ lhs' = l
                /\ inner' = IF ok
                            THEN [inner EXCEPT ![l + 1].closing = closing]
                            ELSE inner
                /\ rhs' = IF ok THEN wrapping_add(rhs, 1) ELSE rhs
                /\ ret' = res
                /\ hist' = Append(hist, Call("R", idx, res))
                /\ UNCHANGED <<overflow_checks, status, out>>

\* Blocks::consume(self)
consume ==
    /\ status = "live"
    /\ status' = "consumed"
    /\ IF is_valid
       THEN /\ ret' = "Ok"
            /\ out' = transmute(inner)
       ELSE /\ ret' = "ExtraLeft"
            /\ out' = <<>>
    /\ UNCHANGED <<inner, lhs, rhs, overflow_checks, hist>>

\* ---------------------------------------------------------- specifications
\* any caller: any index on any call
AddLeft == \E idx \in Idx : Len(hist) < MaxOps /\ add_left(idx)
AddRight == \E idx \in Idx : Len(hist) < MaxOps /\ add_right(idx)
Consume == consume

Next == AddLeft \/ AddRight \/ Consume

Spec == Init /\ [][Next]_vars

\* a scanner: the k-th token of the stream (from 0) is passed index k
StreamLeft == Len(hist) < MaxStream /\ add_left(Len(hist))
StreamRight == Len(hist) < MaxStream /\ add_right(Len(hist))
StreamConsume == consume

NextStream == StreamLeft \/ StreamRight \/ StreamConsume

SpecStream == Init /\ [][NextStream]_vars

TypeOK ==
    /\ lhs \in 0 .. UsizeMod - 1
    /\ rhs \in 0 .. UsizeMod - 1
    /\ status \in {"live", "consumed"}
    /\ ret \in {"none", "Ok", "ExtraRight", "ExtraLeft", "panic"}
    /\ \A i \in 1 .. Len(inner) : Len(inner[i].closing) <= 1

\* ------------------------------------------------- reading the call log
\* number of calls of kind op in the log h
NumOp(h, op) == Cardinality({i \in 1 .. Len(h) : h[i].op = op})

IsLeft(c) == c.op = "L"

\* the add_left calls of the log, in call order
Lefts(h) == SelectSeq(h, IsLeft)

\* every prefix has at least as many add_left as add_right, totals equal
Nestable(h) ==
    /\ \A n \in 0 .. Len(h) :
          NumOp(SubSeq(h, 1, n), "L") >= NumOp(SubSeq(h, 1, n), "R")
    /\ NumOp(h, "L") = NumOp(h, "R")

NonZeroClosings(h) == \A i \in 1 .. Len(h) : h[i].op = "R" => h[i].idx # 0

\* indices strictly increasing along the log
Increasing(h) == \A i, j \in 1 .. Len(h) : i < j => h[i].idx < h[j].idx

\* k add_left calls followed by k add_right calls with non-zero indices
PurelyNested(h, k) ==
    /\ Len(h) = 2 * k
    /\ \A i \in 1 .. k : h[i].op = "L"
    /\ \A i \in k + 1 .. 2 * k : h[i].op = "R" /\ h[i].idx # 0

\* the last step was a call of add_right (whatever it returned)
AddRightStep ==
    /\ Len(hist') = Len(hist) + 1
    /\ hist'[Len(hist')].op = "R"

\* some block of inner has no closing yet
Pending == \E i \in 1 .. Len(inner) : inner[i].closing = None

\* Reference stack matcher: add_left pushes a block, add_right(idx) closes
\* the most recently opened block that has no closing yet.  -1 = unclosed.
RECURSIVE RefRun(_, _, _, _)
RefRun(h, i, blocks, stack) ==
    IF i > Len(h) THEN blocks
    ELSE IF h[i].op = "L"
         THEN RefRun(h, i + 1,
                     Append(blocks, [opening |-> h[i].idx, closing |-> -1]),
                     Append(stack, Len(blocks) + 1))
         ELSE IF stack = <<>>
              THEN RefRun(h, i + 1, blocks, stack)
              ELSE RefRun(h, i + 1,
                          [blocks EXCEPT ![stack[Len(stack)]].closing = h[i].idx],
                          SubSeq(stack, 1, Len(stack) - 1))

RefMatch(h) == RefRun(h, 1, <<>>, <<>>)

Pair(o, c) == [opening |-> o, closing |-> c]

Ops(h) == [i \in 1 .. Len(h) |-> h[i].op]

\* ------------------------------------------------------------------ claims

\* C1: for every nestable sequence of add_left/add_right calls with non-zero
\* closing indices, consume() succeeds and returns exactly the pairing of the
\* reference stack matcher; in particular add_left(0); add_left(1);
\* add_right(2); add_left(3); add_right(4); add_right(5); consume() returns
\* (0,5), (1,2), (3,4).
C1_StackPairing ==
    /\ (status = "consumed" /\ Nestable(hist) /\ NonZeroClosings(hist))
          => (ret = "Ok" /\ out = RefMatch(hist))
    /\ (status = "consumed" /\ Ops(hist) = <<"L", "L", "R", "L", "R", "R">>
          /\ \A i \in 1 .. 6 : hist[i].idx = i - 1)
          => (ret = "Ok" /\ out = <<Pair(0, 5), Pair(1, 2), Pair(3, 4)>>)

\* C2: is_valid() is true iff every block of inner has a present closing, so
\* a successful consume() never returns a block whose closing was never
\* assigned by add_right.
C2_ValidIffAllClosed ==
    /\ is_valid <=> ~Pending
    /\ (status = "consumed" /\ ret = "Ok") => ~Pending

\* C3: once a block has a closing no later add_right changes it; an add_right
\* whose target position holds an already closed block returns ExtraRight.
C3_ClosedOnce ==
    [][ /\ \A i \in 1 .. Len(inner) :
              inner[i].closing # None => inner'[i].closing = inner[i].closing
        /\ (AddRightStep /\ ret' # "panic"
              /\ get_mut_some(inner, target(lhs))
              /\ inner[target(lhs) + 1].closing # None)
              => ret' = "ExtraRight" ]_vars

\* C4: an add_right call that returns ExtraRight leaves inner, lhs and rhs
\* exactly as they were before the call.
C4_ExtraRightNoMutation ==
    [][ (AddRightStep /\ ret' = "ExtraRight")
          => (inner' = inner /\ lhs' = lhs /\ rhs' = rhs) ]_vars

\* C5: add_right called when no block awaits a closing returns ExtraRight; it
\* neither succeeds nor aborts on the decrement of lhs.
C5_NoPendingExtraRight ==
    [][ (AddRightStep /\ ~Pending) => ret' = "ExtraRight" ]_vars

\* C6: whenever a block awaits a closing, add_right(idx) succeeds for every
\* idx >= 0, 0 included; ExtraRight is returned only when no block is pending.
C6_AnyIndexAccepted ==
    [][ AddRightStep
          => /\ Pending => ret' = "Ok"
             /\ ret' = "ExtraRight" => ~Pending ]_vars

\* C7: k add_left calls followed by k add_right calls with non-zero indices
\* make is_valid() true and consume() succeed, the i-th returned block (from
\* 0, in opening order) carrying the index of the (k-1-i)-th add_right call.
C7_PurelyNested ==
    \A k \in 0 .. Len(hist) :
        PurelyNested(hist, k)
          => /\ is_valid
             /\ status = "consumed"
                  => /\ ret = "Ok"
                     /\ Len(out) = k
                     /\ \A j \in 1 .. k :
                           /\ out[j].opening = hist[j].idx
                           /\ out[j].closing = hist[2 * k - j + 1].idx

C7_Witness ==
    /\ status = "consumed"
    /\ ret = "Ok"
    /\ PurelyNested(hist, 2)
    /\ \A i \in 1 .. 4 : hist[i].idx = i - 1
    /\ out = <<Pair(0, 3), Pair(1, 2)>>

\* C8: for every nestable sequence whose indices strictly increase along the
\* stream, consume() succeeds, returns as many blocks as there were add_left
\* calls, and every returned block has opening < closing.
C8_OpeningBeforeClosing ==
    (status = "consumed" /\ Nestable(hist) /\ Increasing(hist))
      => /\ ret = "Ok"
         /\ Len(out) = NumOp(hist, "L")
         /\ \A i \in 1 .. Len(out) : out[i].opening < out[i].closing

\* C9: after any sequence of calls with more add_left than add_right calls
\* (whatever they returned) is_valid() is false and consume() returns
\* ExtraLeft.
C9_MoreLeftsExtraLeft ==
    NumOp(hist, "L") > NumOp(hist, "R")
      => /\ ~is_valid
         /\ status = "consumed" => (ret = "ExtraLeft" /\ out = <<>>)

C9_Witness ==
    /\ status = "consumed"
    /\ ret = "ExtraLeft"
    /\ NumOp(hist, "L") > NumOp(hist, "R")
    /\ \E i \in 1 .. Len(hist) : hist[i].op = "R" /\ hist[i].res = "Ok"
    /\ \E i \in 1 .. Len(hist) : hist[i].op = "R" /\ hist[i].res = "ExtraRight"

\* C10: whenever consume() succeeds it returns exactly one block per add_left
\* call, the i-th block's opening being the idx of the i-th add_left call,
\* however the add_right calls were interleaved.
C10_OpeningOrder ==
    (status = "consumed" /\ ret = "Ok")
      => /\ Len(out) = Len(Lefts(hist))
         /\ \A i \in 1 .. Len(out) : out[i].opening = Lefts(hist)[i].idx

C10_Witness ==
    /\ status = "consumed"
    /\ ret = "Ok"
    /\ Ops(hist) = <<"L", "R", "L", "R">>
    /\ out[1].opening # out[2].opening

\* number of add_right calls of the log h that returned Ok
NumRightOk(h) ==
    Cardinality({i \in 1 .. Len(h) : h[i].op = "R" /\ h[i].res = "Ok"})

\* number of blocks of v whose closing is absent / present
NumOpen(v) == Cardinality({i \in 1 .. Len(v) : v[i].closing = None})
NumClosed(v) == Cardinality({i \in 1 .. Len(v) : v[i].closing # None})

\* the last step was a call of add_left
AddLeftStep ==
    /\ Len(hist') = Len(hist) + 1
    /\ hist'[Len(hist')].op = "L"

\* C11: rhs <= inner.length in every reachable state, also after failed
\* add_right calls and add_right calls on the empty structure.
C11_RhsAtMostLen == rhs <= Len(inner)

C11_Witness ==
    /\ Len(hist) >= 3
    /\ hist[1].op = "R"
    /\ \E i \in 1 .. Len(hist) : hist[i].op = "R" /\ hist[i].res = "ExtraRight"
    /\ rhs >= 1

\* C12: in every reachable state lhs is the number of blocks of inner whose
\* closing is absent.
C12_LhsCountsOpen == lhs = NumOpen(inner)

\* C13: for every opening index o and closing index c, new(); add_left(o);
\* add_right(c); consume() succeeds and returns the single block (o, c).
C13_RoundTrip ==
    (status = "consumed" /\ Ops(hist) = <<"L", "R">>)
      => /\ ret = "Ok"
         /\ out = <<Pair(hist[1].idx, hist[2].idx)>>

\* C14: after an add_right that returned ExtraRight, a later add_left(a)
\* immediately followed by add_right(b), b non-zero, succeeds and makes b the
\* closing of the block just opened at a.
C14_UsableAfterExtraRight ==
    LET n == Len(hist) IN
    (/\ n >= 3
     /\ \E j \in 1 .. n - 2 : hist[j].op = "R" /\ hist[j].res = "ExtraRight"
     /\ hist[n - 1].op = "L"
     /\ hist[n].op = "R"
     /\ hist[n].idx # 0)
      => /\ hist[n].res = "Ok"
         /\ inner[Len(inner)] = [opening |-> hist[n - 1].idx,
                                 closing |-> Some(hist[n].idx)]

\* C15: add_left(idx) always succeeds, appends exactly one block (opening =
\* idx, closing absent) at the end of inner and increases lhs by one, leaving
\* rhs and every earlier block unchanged.
C15_AddLeftFrame ==
    [][ AddLeftStep
          => /\ ret' = "Ok"
             /\ inner' = Append(inner, [opening |-> hist'[Len(hist')].idx,
                                        closing |-> None])
             /\ lhs' = lhs + 1
             /\ rhs' = rhs ]_vars

\* C16: lhs never underflows or wraps: 0 <= lhs <= inner.length in every
\* reachable state, and no call aborts on the arithmetic of lhs.
C16_LhsInRange ==
    /\ 0 <= lhs
    /\ lhs <= Len(inner)
    /\ ret # "panic"

\* C17: in every reachable state rhs is the number of add_right calls that
\* returned success, every present closing is non-zero, and at most rhs
\* blocks of inner have a present closing.
C17_RhsCountsSuccesses ==
    /\ rhs = NumRightOk(hist)
    /\ \A i \in 1 .. Len(inner) :
          inner[i].closing # None => inner[i].closing[1] # 0
    /\ NumClosed(inner) <= rhs

C17_Witness ==
    /\ rhs = 2
    /\ NumClosed(inner) = 1
    /\ \E i \in 1 .. Len(hist) : hist[i].op = "R" /\ hist[i].res = "ExtraRight"
    /\ \E i \in 1 .. Len(hist) : hist[i].op = "R" /\ hist[i].idx = 0

====
